---- MODULE Spec2Model ----
(***************************************************************************)
(* Model of the useWebRTC hook (src/src/hooks/useWebRTC.ts): two endpoints *)
(* "S" and "R" each run one instance of the hook.  S is the initiator and  *)
(* the endpoint whose user calls sendFiles; R is the responder.  The peer  *)
(* library (simple-peer) is the environment: a peer object is new, open or *)
(* destroyed, send() throws unless the peer's channel is open, destroy()   *)
(* emits 'error' (when given one) and 'close' in a microtask.  The signal  *)
(* codec (src/src/lib/utils.ts) is modelled on texts made of line contents *)
(* and the characters CR, LF and space.                                    *)
(***************************************************************************)
EXTENDS Integers, Sequences, FiniteSets, TLC

\* ------------------------------------------------------------- constants
CHUNK_SIZE == 65536
HIGH_WATER_MARK == 1048576

\* ---------------------------------------------------------------- bounds
MaxFiles == 3      \* files ever enqueued by sendFiles (SpecPump)
MaxBatch == 2      \* files in one sendFiles call
FullFiles == 2     \* files ever enqueued under Spec
OneFile == 1       \* files ever enqueued under SpecFiles
MaxPeers == 1      \* peer objects ever constructed by one endpoint
MaxLoops == 2      \* processNextFile invocations alive at the same time
MaxChats == 2      \* chat messages one endpoint sends in a session
MaxSdpLines == 2   \* lines of an SDP text given to the signal codec

Ends == {"S", "R"}
Other(e) == IF e = "S" THEN "R" ELSE "S"
Ids == 1..MaxFiles
Gens == 1..MaxPeers
Null == [none |-> TRUE]

\* The files a user can pick: a size in bytes and what the bytes of a chunk
\* decode to: "plain" (not brace-delimited text), "brace" (text that starts
\* with '{' and ends with '}' but is no JSON), "json" (a JSON object that has
\* no protocol type).
FileKinds ==
    { [size |-> 0, body |-> "plain"],
      [size |-> 1024, body |-> "plain"],
      [size |-> 65536, body |-> "plain"],
      [size |-> 98304, body |-> "plain"],
      [size |-> 1024, body |-> "brace"],
      [size |-> 1024, body |-> "json"] }

\* The texts a user can type into the chat.
ChatTexts == {"hello", "again"}

\* A file of two chunks, and a file of one.  ChatFiles: the file of two
\* chunks and a file whose one chunk is a JSON object.
TwoChunkFile == { [size |-> 98304, body |-> "plain"] }
SmallFile == { [size |-> 1024, body |-> "plain"] }
ChatFiles == TwoChunkFile \cup { [size |-> 1024, body |-> "json"] }

VARIABLES
    connectionState,  \* [Ends -> ConnectionState]
    localSignal,      \* [Ends -> Null or [kind, gen]]
    signalStatus,     \* [Ends -> "gathering" | "ready" | "null"]
    error,            \* [Ends -> string], "null" when cleared
    transfers,        \* [Ends -> [subset of Ids -> FileTransfer]]
    peerRef,          \* [Ends -> 0..MaxPeers], 0 is null
    sendQueue,        \* [Ends -> Seq(Ids)]
    isSending,        \* [Ends -> BOOLEAN]
    cancelled,        \* [Ends -> SUBSET Ids]
    incoming,         \* [Ends -> Null or assembly]
    loops,            \* [1..MaxLoops -> invocation of processNextFile on S]
    peers,            \* [Ends -> [Gens -> peer object]]
    net,              \* [Ends -> Seq(message)], in flight towards the endpoint
    pending,          \* Seq of peer events queued as microtasks
    nextId,           \* ids uid() has handed out on S
    fileOf,           \* [Ids -> file] the File of each send entry
    wire,             \* history: every message S's peers accepted, in order
    hist,             \* history: what the claims need to remember
    messages,         \* [Ends -> Seq(ChatMessage)]
    codec,            \* the signal codec at work: Null, or its input and results
    wakeLock,         \* [Ends -> "unsupported" | "none" | "asked" | "held"]
    timer             \* [Ends -> BOOLEAN], the connection timeout is armed

vars == << connectionState, localSignal, signalStatus, error, transfers, peerRef,
           sendQueue, isSending, cancelled, incoming, loops, peers, net, pending,
           nextId, fileOf, wire, hist, messages, codec, wakeLock, timer >>

hookVars == << connectionState, localSignal, signalStatus, error, timer >>

\* ------------------------------------------------------------ data model
\* A FileTransfer record (useWebRTC.ts:52-63), without the clock fields.
NewTransfer(size, status, direction) ==
    [size |-> size, progress |-> 0, status |-> status, direction |-> direction]

\* p.map((t) => (t.id === id ? { ...t, ...patch } : t)): no effect without a
\* record of that id.
SetStatus(tr, id, st) ==
    IF id \in DOMAIN tr THEN [tr EXCEPT ![id].status = st] ELSE tr

SetProgress(tr, id, pr) ==
    IF id \in DOMAIN tr THEN [tr EXCEPT ![id].progress = pr] ELSE tr

SetCompleted(tr, id) ==
    IF id \in DOMAIN tr
    THEN [tr EXCEPT ![id].status = "completed", ![id].progress = 100]
    ELSE tr

AddTransfer(tr, id, rec) ==
    [x \in DOMAIN tr \cup {id} |-> IF x = id THEN rec ELSE tr[x]]

EmptyTransfers == [x \in {} |-> Null]

Min(a, b) == IF a < b THEN a ELSE b

TotalChunksOffByOne(size) == size \div CHUNK_SIZE + 1

\* Math.ceil(file.size / CHUNK_SIZE)
TotalChunks(size) == (size + CHUNK_SIZE - 1) \div CHUNK_SIZE

\* Math.min(start + CHUNK_SIZE, file.size) - start
ChunkLen(size, i) == Min((i + 1) * CHUNK_SIZE, size) - i * CHUNK_SIZE

ProgressOfRest(bytes, size) ==
    IF size = 0 THEN 100 ELSE Min(100, (200 * (size - bytes) + size) \div (2 * size))

\* Math.min(100, Math.round((bytes / size) * 100)); bytes > 0 where it is
\* used, so that a size of 0 gives Math.min(100, Infinity).
Progress(bytes, size) ==
    IF size = 0 THEN 100 ELSE Min(100, (200 * bytes + size) \div (2 * size))

\* requestWakeLock(): with the API and no sentinel in wakeLockRef a request
\* is made, whose promise settles in a later task.
RequestWakeLock(w) == IF w = "none" THEN "asked" ELSE w

KeepWakeLock(w) == w

\* releaseWakeLock(): releases the sentinel in wakeLockRef, if there is one.
ReleaseWakeLock(w) == IF w = "held" THEN "none" ELSE w

TimeoutEffectKeeps ==
    timer' = [e \in Ends |-> timer[e] \/ connectionState'[e] = "connecting"]

\* The connection timeout effect, run when connectionState has changed: the
\* cleanup of the previous run clears the timer, and the timer is armed if the
\* new state is 'connecting'.
TimeoutEffect ==
    timer' = [e \in Ends |->
                IF connectionState'[e] = connectionState[e] THEN timer[e]
                ELSE connectionState'[e] = "connecting"]

\* ------------------------------------------------------ the peer library
NoPeer == [st |-> "none", partner |-> 0, signalled |-> FALSE]

Live(e, g) == g # 0 /\ peers[e][g].st \in {"new", "open"}

\* peer.destroyed
IsDestroyed(e, g) == peers[e][g].st = "destroyed"

\* peer.send(m) throws unless the peer's channel is open.
CanSend(e, g) == g # 0 /\ peers[e][g].st = "open"

HasFreshPeer(e) == \E g \in Gens : peers[e][g].st = "none"
FreshPeer(e) == CHOOSE g \in Gens :
    peers[e][g].st = "none" /\ \A h \in Gens : h < g => peers[e][h].st # "none"

\* destroy() without an error, and the errors the library destroys a peer with.
NoError == [code |-> "null", message |-> "null"]
PeerErrors ==
    { [code |-> "ERR_ICE_CONNECTION_FAILURE", message |-> "Ice connection failed."],
      [code |-> "ERR_DATA_CHANNEL", message |-> "Data channel failed."] }
BadAnswer ==
    [code |-> "ERR_SET_REMOTE_DESCRIPTION", message |-> "Failed to set remote answer sdp"]

\* The 'error' and 'close' events destroy(err) queues.
DestroyEvents(e, g, err) ==
    (IF err = NoError THEN << >> ELSE << [e |-> e, g |-> g, kind |-> "error", err |-> err] >>)
    \o << [e |-> e, g |-> g, kind |-> "close", err |-> NoError] >>

\* Messages still in flight to a destroyed peer are never delivered.
Purge(q, g) == SelectSeq(q, LAMBDA m : m.to # g)

\* The messages ms, sent on peer g of e, as they appear in flight and on the wire.
Tagged(e, g, ms) ==
    [k \in 1..Len(ms) |-> [ms[k] EXCEPT !.to = peers[e][g].partner, !.gen = g]]

NetAfterSend(e, g, ms) ==
    IF Live(Other(e), peers[e][g].partner)
    THEN [net EXCEPT ![Other(e)] = @ \o Tagged(e, g, ms)]
    ELSE net

WireAfterSend(e, g, ms) == IF e = "S" THEN wire \o Tagged(e, g, ms) ELSE wire

Msg(type, id, hasId, len, total, body) ==
    [type |-> type, id |-> id, hasId |-> hasId, len |-> len, total |-> total,
     body |-> body, to |-> 0, gen |-> 0]

\* JSON.stringify({ type: 'file-meta', id, name, size, totalChunks })
MetaMsg(id, size) == Msg("file-meta", id, TRUE, size, TotalChunks(size), "json")
\* the chunk bytes; id is carried for the history only
ChunkMsg(id, len, body) == Msg("chunk", id, FALSE, len, 0, body)
\* JSON.stringify({ type: 'file-complete' })
CompleteMsg(id) == Msg("file-complete", id, FALSE, 0, 0, "json")
\* JSON.stringify({ type: 'file-cancel' }) of the send loop
LoopCancelMsg(id) == Msg("file-cancel", id, FALSE, 0, 0, "json")
\* JSON.stringify({ type: 'file-cancel', id }) of cancelTransfer
CancelMsg(id) == Msg("file-cancel", id, TRUE, 0, 0, "json")

\* JSON.stringify({ type: 'chat', text: text.trim(), timestamp })
ChatMsg(text) ==
    [type |-> "chat", id |-> 0, hasId |-> FALSE, len |-> 0, total |-> 0,
     body |-> "json", to |-> 0, gen |-> 0, text |-> text]

\* ------------------------------------------------------------------- Init
IdleLoop == [pc |-> "idle", id |-> 0, peer |-> 0, i |-> 0, sent |-> 0]

InitHook ==
    /\ connectionState = [e \in Ends |-> "idle"]
    /\ localSignal = [e \in Ends |-> Null]
    /\ signalStatus = [e \in Ends |-> "null"]
    /\ error = [e \in Ends |-> "null"]
    /\ transfers = [e \in Ends |-> EmptyTransfers]
    /\ peerRef = [e \in Ends |-> 0]
    /\ sendQueue = [e \in Ends |-> << >>]
    /\ isSending = [e \in Ends |-> FALSE]
    /\ cancelled = [e \in Ends |-> {}]
    /\ incoming = [e \in Ends |-> Null]
    /\ loops = [l \in 1..MaxLoops |-> IdleLoop]
    /\ peers = [e \in Ends |-> [g \in Gens |-> NoPeer]]
    /\ net = [e \in Ends |-> << >>]
    /\ pending = << >>
    /\ nextId = 0
    /\ fileOf = [x \in Ids |-> [size |-> 0, body |-> "plain"]]
    /\ wire = << >>
    /\ hist = [cancelQueued |-> {}, cancelSend |-> {}, cancelRecv |-> {},
               discarded |-> {}, saved |-> {}, fromIdle |-> FALSE,
               thrown |-> {}, buffered |-> << >>]
    /\ messages = [e \in Ends |-> << >>]
    /\ codec = Null
    /\ timer = [e \in Ends |-> FALSE]

\* In a browser without the Screen Wake Lock API, and in one that has it.
Init == InitHook /\ wakeLock = [e \in Ends |-> "unsupported"]
InitWake == InitHook /\ wakeLock = [e \in Ends |-> "none"]

\* ------------------------------------------------------------- handshake
\* createPeerInstance(initiator): destroy the peer in peerRef, construct a new
\* one and store it.  partner is what peer.signal(offer) is given afterwards.
CreatePeerInstance(e, partner) ==
    LET old == peerRef[e]
        g == FreshPeer(e)
    IN  /\ peers' = [peers EXCEPT ![e] =
              [h \in Gens |->
                  IF h = g THEN [st |-> "new", partner |-> partner, signalled |-> FALSE]
                  ELSE IF h = old /\ Live(e, old) THEN [@[h] EXCEPT !.st = "destroyed"]
                  ELSE @[h]]]
        /\ pending' = IF Live(e, old) THEN DestroyEvents(e, old, NoError) ELSE << >>
        /\ net' = IF Live(e, old) THEN [net EXCEPT ![e] = Purge(@, old)] ELSE net
        /\ peerRef' = [peerRef EXCEPT ![e] = g]

CreateOffer(e) ==
    /\ pending = << >>
    /\ HasFreshPeer(e)
    /\ error' = [error EXCEPT ![e] = "null"]
    /\ localSignal' = [localSignal EXCEPT ![e] = Null]
    /\ signalStatus' = [signalStatus EXCEPT ![e] = "gathering"]
    /\ connectionState' = [connectionState EXCEPT ![e] = "connecting"]
    /\ CreatePeerInstance(e, 0)
    \* history: was the initiator's run started in idle
    /\ hist' = [hist EXCEPT !.fromIdle = connectionState[e] = "idle"]
    /\ UNCHANGED << transfers, sendQueue, isSending, cancelled, incoming, loops,
                    nextId, fileOf, wire,
                    messages, codec, wakeLock >>
    /\ TimeoutEffect

\* acceptOffer(encodedOffer) with the offer the other endpoint shows.
AcceptOffer(e) ==
    /\ pending = << >>
    /\ HasFreshPeer(e)
    /\ localSignal[Other(e)] # Null
    /\ localSignal[Other(e)].kind = "offer"
    /\ connectionState[e] # "connected"
    /\ error' = [error EXCEPT ![e] = "null"]
    /\ localSignal' = [localSignal EXCEPT ![e] = Null]
    /\ signalStatus' = [signalStatus EXCEPT ![e] = "gathering"]
    /\ connectionState' = [connectionState EXCEPT ![e] = "connecting"]
    /\ CreatePeerInstance(e, localSignal[Other(e)].gen)
    /\ UNCHANGED << transfers, sendQueue, isSending, cancelled, incoming, loops,
                    nextId, fileOf, wire, hist,
                    messages, codec, wakeLock >>
    /\ TimeoutEffect

\* peer.on('signal'): the initiator emits its offer once constructed, the
\* responder its answer once it was given the offer.
PeerSignal(e) ==
    LET g == peerRef[e] IN
    /\ pending = << >>
    /\ Live(e, g)
    /\ peers[e][g].st = "new"
    /\ ~peers[e][g].signalled
    /\ e = "S" \/ peers[e][g].partner # 0
    /\ peers' = [peers EXCEPT ![e][g].signalled = TRUE]
    /\ localSignal' = [localSignal EXCEPT ![e] =
            [kind |-> IF e = "S" THEN "offer" ELSE "answer", gen |-> g]]
    /\ signalStatus' = [signalStatus EXCEPT ![e] = "ready"]
    /\ connectionState' = [connectionState EXCEPT ![e] = "waiting-for-peer"]
    /\ UNCHANGED << error, transfers, peerRef, sendQueue, isSending, cancelled,
                    incoming, loops, net, pending, nextId, fileOf, wire, hist,
                    messages, codec, wakeLock >>
    /\ TimeoutEffect

\* What decodeSignal throws for a string it cannot decode.
DecodeFailure == "Failed to decode signaling data"

\* e.message?.includes('JSON') || e.message?.includes('base64')
IsDecodeError(message) ==
    message \in {"Unexpected token in JSON", "The string is not correctly base64 encoded"}

\* acceptOffer: what setError is given in the catch block.
OfferErrorKey(message) ==
    IF IsDecodeError(message) THEN "invalidOfferFormat" ELSE "invalidOffer"

\* acceptOffer(text) with a non-empty text the codec cannot decode: the state
\* is reset and the peer constructed before decodeSignal throws.
AcceptBadOffer(e) ==
    /\ pending = << >>
    /\ HasFreshPeer(e)
    /\ connectionState[e] # "connected"
    /\ localSignal' = [localSignal EXCEPT ![e] = Null]
    /\ CreatePeerInstance(e, 0)
    /\ error' = [error EXCEPT ![e] = OfferErrorKey(DecodeFailure)]
    /\ connectionState' = [connectionState EXCEPT ![e] = "error"]
    /\ signalStatus' = [signalStatus EXCEPT ![e] = "null"]
    /\ UNCHANGED << transfers, sendQueue, isSending, cancelled, incoming, loops,
                    nextId, fileOf, wire, hist,
                    messages, codec, wakeLock >>
    /\ TimeoutEffect

\* The timer of the connection timeout effect fires.  The test in its
\* callback reads the connectionState of the render that armed it, which is
\* 'connecting'.
ConnectionTimeout(e) ==
    LET g == peerRef[e] IN
    /\ pending = << >>
    /\ timer[e]
    /\ error' = [error EXCEPT ![e] = "connectionTimeout"]
    /\ connectionState' = [connectionState EXCEPT ![e] = "error"]
    /\ IF Live(e, g)
       THEN /\ peers' = [peers EXCEPT ![e][g].st = "destroyed"]
            /\ pending' = DestroyEvents(e, g, NoError)
            /\ net' = [net EXCEPT ![e] = Purge(@, g)]
       ELSE UNCHANGED << peers, pending, net >>
    /\ UNCHANGED << localSignal, signalStatus, transfers, peerRef, sendQueue, isSending,
                    cancelled, incoming, loops, nextId, fileOf, wire, hist,
                    messages, codec, wakeLock >>
    /\ TimeoutEffect

AcceptAnswerToConnecting(e) ==
    LET g == peerRef[e]
        ans == localSignal[Other(e)]
        fits == /\ peers[e][g].partner = 0
                /\ peers[Other(e)][ans.gen].partner = g
    IN
    /\ pending = << >>
    /\ ans # Null
    /\ ans.kind = "answer"
    /\ connectionState[e] # "connected"
    /\ IF g = 0 \/ ~Live(e, g)
       THEN /\ error' = [error EXCEPT ![e] = "invalidAnswer"]
            /\ connectionState' = [connectionState EXCEPT ![e] = "error"]
            /\ UNCHANGED << peers, pending, net >>
       ELSE /\ error' = [error EXCEPT ![e] = "null"]
            /\ connectionState' = [connectionState EXCEPT ![e] = "connecting"]
            /\ IF fits
               THEN /\ peers' = [peers EXCEPT ![e][g].partner = ans.gen]
                    /\ UNCHANGED << pending, net >>
               ELSE /\ peers' = [peers EXCEPT ![e][g].st = "destroyed"]
                    /\ pending' = DestroyEvents(e, g, BadAnswer)
                    /\ net' = [net EXCEPT ![e] = Purge(@, g)]
    /\ UNCHANGED << localSignal, signalStatus, transfers, peerRef, sendQueue, isSending,
                    cancelled, incoming, loops, nextId, fileOf, wire, hist,
                    messages, codec, wakeLock >>
    /\ TimeoutEffect

\* acceptAnswer(encodedAnswer) with the answer the other endpoint shows.
AcceptAnswer(e) ==
    LET g == peerRef[e]
        ans == localSignal[Other(e)]
        fits == /\ peers[e][g].partner = 0
                /\ peers[Other(e)][ans.gen].partner = g
    IN
    /\ pending = << >>
    /\ ans # Null
    /\ ans.kind = "answer"
    /\ connectionState[e] # "connected"
    /\ IF g = 0 \/ ~Live(e, g)
       THEN \* throw new Error('Peer not initialized'), or signal() on a destroyed peer
            /\ error' = [error EXCEPT ![e] = "invalidAnswer"]
            /\ connectionState' = [connectionState EXCEPT ![e] = "error"]
            /\ UNCHANGED << peers, pending, net >>
       ELSE /\ error' = [error EXCEPT ![e] = "null"]
            /\ UNCHANGED connectionState
            /\ IF fits
               THEN /\ peers' = [peers EXCEPT ![e][g].partner = ans.gen]
                    /\ UNCHANGED << pending, net >>
               ELSE \* an answer the peer cannot apply: the library destroys the peer
                    /\ peers' = [peers EXCEPT ![e][g].st = "destroyed"]
                    /\ pending' = DestroyEvents(e, g, BadAnswer)
                    /\ net' = [net EXCEPT ![e] = Purge(@, g)]
    /\ UNCHANGED << localSignal, signalStatus, transfers, peerRef, sendQueue, isSending,
                    cancelled, incoming, loops, nextId, fileOf, wire, hist,
                    messages, codec, wakeLock >>
    /\ TimeoutEffect

\* acceptAnswer: what setError is given in the catch block.
AnswerErrorKey(message) ==
    IF IsDecodeError(message) THEN "invalidAnswerFormat" ELSE "invalidAnswer"

\* acceptAnswer(text) with a non-empty text the codec cannot decode:
\* decodeSignal throws before the peer is looked at.
AcceptBadAnswer(e) ==
    /\ pending = << >>
    /\ connectionState[e] # "connected"
    /\ error' = [error EXCEPT ![e] = AnswerErrorKey(DecodeFailure)]
    /\ connectionState' = [connectionState EXCEPT ![e] = "error"]
    /\ UNCHANGED << localSignal, signalStatus, transfers, peerRef, sendQueue, isSending,
                    cancelled, incoming, loops, peers, net, pending, nextId, fileOf,
                    wire, hist, messages, codec, wakeLock >>
    /\ TimeoutEffect

\* peer.on('connect')
PeerConnect(e) ==
    LET g == peerRef[e]
        o == Other(e)
    IN
    /\ pending = << >>
    /\ g # 0
    /\ peers[e][g].st = "new"
    /\ peers[e][g].partner # 0
    /\ peers[o][peers[e][g].partner].partner = g
    /\ Live(o, peers[e][g].partner)
    /\ peers' = [peers EXCEPT ![e][g].st = "open"]
    /\ connectionState' = [connectionState EXCEPT ![e] = "connected"]
    /\ signalStatus' = [signalStatus EXCEPT ![e] = "null"]
    /\ error' = [error EXCEPT ![e] = "null"]
    /\ UNCHANGED << localSignal, transfers, peerRef, sendQueue, isSending, cancelled,
                    incoming, loops, net, pending, nextId, fileOf, wire, hist,
                    messages, codec >>
    /\ wakeLock' = [wakeLock EXCEPT ![e] = RequestWakeLock(@)]
    /\ TimeoutEffect

\* The library destroys a peer: with an error (ICE or connection failure), or
\* without one when the channel closes because the other side is gone.
PeerError(e) ==
    LET g == peerRef[e] IN
    /\ pending = << >>
    /\ Live(e, g)
    /\ peers' = [peers EXCEPT ![e][g].st = "destroyed"]
    /\ \E err \in PeerErrors : pending' = DestroyEvents(e, g, err)
    /\ net' = [net EXCEPT ![e] = Purge(@, g)]
    /\ UNCHANGED << hookVars, transfers, peerRef, sendQueue, isSending, cancelled,
                    incoming, loops, nextId, fileOf, wire, hist,
                    messages, codec, wakeLock >>

\* The error the library has for an environment without WebRTC.
Unsupported ==
    [code |-> "ERR_WEBRTC_SUPPORT", message |-> "No WebRTC support: Not a supported browser"]

\* The peer reports that error: the handler of 'error' has a branch for it.
PeerUnsupported(e) ==
    LET g == peerRef[e] IN
    /\ pending = << >>
    /\ Live(e, g)
    /\ peers' = [peers EXCEPT ![e][g].st = "destroyed"]
    /\ pending' = DestroyEvents(e, g, Unsupported)
    /\ net' = [net EXCEPT ![e] = Purge(@, g)]
    /\ UNCHANGED << hookVars, transfers, peerRef, sendQueue, isSending, cancelled,
                    incoming, loops, nextId, fileOf, wire, hist, messages, codec, wakeLock >>

RemoteClose(e) ==
    LET g == peerRef[e] IN
    /\ pending = << >>
    /\ g # 0
    /\ peers[e][g].st = "open"
    /\ IsDestroyed(Other(e), peers[e][g].partner)
    /\ peers' = [peers EXCEPT ![e][g].st = "destroyed"]
    /\ pending' = DestroyEvents(e, g, NoError)
    /\ net' = [net EXCEPT ![e] = Purge(@, g)]
    /\ UNCHANGED << hookVars, transfers, peerRef, sendQueue, isSending, cancelled,
                    incoming, loops, nextId, fileOf, wire, hist,
                    messages, codec, wakeLock >>

\* msg.includes('Ice connection') || msg.includes('ICE')
MentionsIce(message) == message \in {"Ice connection failed.", "Ice connection closed."}

\* peer.on('error'): what setError is given for an error of the peer.
ErrorKey(err) ==
    LET msg == IF err.message = "" THEN "Connection failed" ELSE err.message IN
    IF MentionsIce(msg) THEN "iceFailed"
    ELSE IF err.code = "ERR_WEBRTC_SUPPORT"
    THEN "WebRTC not supported or blocked by browser."
    ELSE msg

\* The queued 'error' and 'close' handlers run before any other task.
PeerEvent ==
    /\ pending # << >>
    /\ LET ev == Head(pending) IN
        /\ pending' = Tail(pending)
        /\ IF ev.kind = "close"
           THEN /\ connectionState' = [connectionState EXCEPT ![ev.e] = "disconnected"]
                /\ UNCHANGED error
           ELSE /\ connectionState' = [connectionState EXCEPT ![ev.e] = "error"]
                /\ error' = [error EXCEPT ![ev.e] = ErrorKey(ev.err)]
        /\ signalStatus' = [signalStatus EXCEPT ![ev.e] = "null"]
        /\ isSending' = [isSending EXCEPT ![ev.e] = FALSE]
    /\ UNCHANGED << localSignal, transfers, peerRef, sendQueue, cancelled, incoming,
                    loops, peers, net, nextId, fileOf, wire, hist,
                    messages, codec >>
    /\ wakeLock' = [wakeLock EXCEPT ![Head(pending).e] = ReleaseWakeLock(@)]
    /\ TimeoutEffect

\* disconnect()
Disconnect(e) ==
    LET g == peerRef[e] IN
    /\ pending = << >>
    /\ IF Live(e, g)
       THEN /\ peers' = [peers EXCEPT ![e][g].st = "destroyed"]
            /\ pending' = DestroyEvents(e, g, NoError)
            /\ net' = [net EXCEPT ![e] = Purge(@, g)]
       ELSE UNCHANGED << peers, pending, net >>
    /\ peerRef' = [peerRef EXCEPT ![e] = 0]
    /\ connectionState' = [connectionState EXCEPT ![e] = "idle"]
    /\ localSignal' = [localSignal EXCEPT ![e] = Null]
    /\ signalStatus' = [signalStatus EXCEPT ![e] = "null"]
    /\ transfers' = [transfers EXCEPT ![e] = EmptyTransfers]
    /\ error' = [error EXCEPT ![e] = "null"]
    /\ sendQueue' = [sendQueue EXCEPT ![e] = << >>]
    /\ isSending' = [isSending EXCEPT ![e] = FALSE]
    /\ cancelled' = [cancelled EXCEPT ![e] = {}]
    /\ incoming' = [incoming EXCEPT ![e] = Null]
    /\ messages' = [messages EXCEPT ![e] = << >>]
    /\ UNCHANGED << loops, nextId, fileOf, wire, hist, codec >>
    /\ wakeLock' = [wakeLock EXCEPT ![e] = ReleaseWakeLock(@)]
    /\ TimeoutEffect

\* The promise of navigator.wakeLock.request('screen') settles: with a
\* sentinel, which requestWakeLock stores in wakeLockRef, or with an error,
\* which it logs.
WakeLockSettles(e, granted) ==
    /\ pending = << >>
    /\ wakeLock[e] = "asked"
    /\ wakeLock' = [wakeLock EXCEPT ![e] = IF granted THEN "held" ELSE "none"]
    /\ UNCHANGED << hookVars, transfers, peerRef, sendQueue, isSending, cancelled,
                    incoming, loops, peers, net, pending, nextId, fileOf, wire, hist,
                    messages, codec >>

\* ------------------------------------------------------- transfer engine
\* finally { isSendingRef.current = false; releaseWakeLock(); }
Finally(l) ==
    /\ loops' = [loops EXCEPT ![l] = IdleLoop]
    /\ isSending' = [isSending EXCEPT !["S"] = FALSE]
    /\ wakeLock' = [wakeLock EXCEPT !["S"] = ReleaseWakeLock(@)]

FreeLoop == CHOOSE l \in 1..MaxLoops :
    loops[l].pc = "idle" /\ \A k \in 1..MaxLoops : k < l => loops[k].pc # "idle"

Batches(kinds) == UNION { [1..n -> kinds] : n \in 1..MaxBatch }

\* sendFiles(files): one id, queue entry and 'queued' record per file; then
\* processNextFile() unless isSending, which runs up to its first await, the
\* one of requestWakeLock().
SendFiles(files, limit) ==
    LET n == Len(files)
        ids == [k \in 1..n |-> nextId + k]
        start == ~isSending["S"]
    IN
    /\ pending = << >>
    /\ nextId + n <= limit
    /\ start => \E l \in 1..MaxLoops : loops[l].pc = "idle"
    /\ nextId' = nextId + n
    /\ fileOf' = [x \in Ids |-> IF x > nextId /\ x <= nextId + n
                                THEN files[x - nextId] ELSE fileOf[x]]
    /\ sendQueue' = [sendQueue EXCEPT !["S"] = @ \o ids]
    /\ transfers' = [transfers EXCEPT !["S"] =
            [x \in DOMAIN @ \cup {ids[k] : k \in 1..n} |->
                IF x \in DOMAIN @ THEN @[x]
                ELSE NewTransfer(files[x - nextId].size, "queued", "send")]]
    /\ IF start
       THEN /\ isSending' = [isSending EXCEPT !["S"] = TRUE]
            /\ loops' = [loops EXCEPT ![FreeLoop] = [IdleLoop EXCEPT !.pc = "wake"]]
            /\ wakeLock' = [wakeLock EXCEPT !["S"] = RequestWakeLock(@)]
       ELSE UNCHANGED << isSending, loops, wakeLock >>
    /\ UNCHANGED << hookVars, peerRef, cancelled, incoming, peers, net, pending,
                    wire, hist,
                    messages, codec >>

CompletesAnyway(id) == TRUE

\* !transferFailed && !cancelledRef.current.has(id), for a for loop that ran
\* to its end (transferFailed is set only together with a break)
MayComplete(id) == id \notin cancelled["S"]

\* The head of one pass of the for loop over the chunks, at index i, entered
\* right after a send of this invocation succeeded: the cancel check, the
\* peer.destroyed check, and after the last chunk the 'Mark complete' block.
\* tr and out are the transfers and the messages sent so far in this step.
ForHead(l, id, g, i, sent, tr, out) ==
    LET size == fileOf[id].size
        go(pc, tr2, out2, canc2) ==
            /\ loops' = [loops EXCEPT ![l] =
                  [pc |-> pc, id |-> id, peer |-> g, i |-> i, sent |-> sent]]
            /\ transfers' = [transfers EXCEPT !["S"] = tr2]
            /\ net' = NetAfterSend("S", g, out2)
            /\ wire' = WireAfterSend("S", g, out2)
            /\ cancelled' = [cancelled EXCEPT !["S"] = canc2]
    IN
    IF i < TotalChunks(size)
    THEN IF id \in cancelled["S"]
         THEN go("pause", SetStatus(tr, id, "cancelled"),
                 Append(out, LoopCancelMsg(id)), cancelled["S"] \ {id})
         ELSE IF IsDestroyed("S", g)
         THEN go("pause", SetStatus(tr, id, "error"), out, cancelled["S"])
         ELSE go("read", tr, out, cancelled["S"])
    ELSE IF MayComplete(id)
         THEN go("pause", SetCompleted(tr, id), Append(out, CompleteMsg(id)),
                 cancelled["S"])
         ELSE go("pause", tr, out, cancelled["S"])

\* The while loop's head, reached after the await of requestWakeLock(), once
\* the request has settled, and after each sleep(200): dequeue, look at the
\* peer, mark transferring, send file-meta and enter the for loop.
LoopTop(l) ==
    /\ pending = << >>
    /\ loops[l].pc \in {"wake", "pause"}
    /\ loops[l].pc = "wake" => wakeLock["S"] # "asked"
    /\ IF sendQueue["S"] = << >>
       THEN /\ Finally(l)
            /\ UNCHANGED << sendQueue, transfers, net, wire, cancelled >>
       ELSE LET id == Head(sendQueue["S"])
                g == peerRef["S"]
                tr == SetStatus(transfers["S"], id, "transferring")
            IN  /\ sendQueue' = [sendQueue EXCEPT !["S"] = Tail(@)]
                /\ IF g = 0 \/ IsDestroyed("S", g)
                   THEN /\ Finally(l)
                        /\ UNCHANGED << transfers, net, wire, cancelled >>
                   ELSE IF ~CanSend("S", g)
                   THEN \* peer.send(file-meta) throws: catch, finally
                        /\ Finally(l)
                        /\ transfers' = [transfers EXCEPT !["S"] = tr]
                        /\ UNCHANGED << net, wire, cancelled >>
                   ELSE /\ ForHead(l, id, g, 0, 0, tr,
                                   << MetaMsg(id, fileOf[id].size) >>)
                        /\ UNCHANGED << isSending, wakeLock >>
    /\ UNCHANGED << hookVars, peerRef, incoming, peers, pending, nextId,
                    fileOf, hist,
                    messages, codec >>

\* try { peer.send(chunk) } catch { mark error; break }, then the progress
\* update (always after the last chunk, otherwise when PROGRESS_THROTTLE ms
\* have passed: upd), then the next pass of the for loop.
SendChunk(l, upd) ==
    LET id == loops[l].id
        g == loops[l].peer
        i == loops[l].i
        size == fileOf[id].size
        len == ChunkLen(size, i)
        sent == loops[l].sent + len
        last == i = TotalChunks(size) - 1
    IN
    IF ~CanSend("S", g)
    THEN /\ transfers' = [transfers EXCEPT !["S"] = SetStatus(@, id, "error")]
         /\ loops' = [loops EXCEPT ![l].pc = "pause"]
         /\ UNCHANGED << net, wire, cancelled >>
    ELSE ForHead(l, id, g, i + 1, sent,
                 IF upd \/ last
                 THEN SetProgress(transfers["S"], id, Progress(sent, size))
                 ELSE transfers["S"],
                 << ChunkMsg(id, len, fileOf[id].body) >>)

\* What channel.bufferedAmount can read: the mark itself and one byte more.
BufferedAmounts == {HIGH_WATER_MARK, HIGH_WATER_MARK + 1}

ExceedsLate(amount) == amount > HIGH_WATER_MARK + 1

\* channel.bufferedAmount > HIGH_WATER_MARK
Exceeds(amount) == amount > HIGH_WATER_MARK

\* After the await of file.slice(start, end).arrayBuffer(): the back-pressure
\* test on peer._channel (null once the peer is destroyed), then the send.
\* amount is what channel.bufferedAmount reads; hist.buffered holds what the
\* last step of the send loop read, if it read.
LoopAfterRead(l) ==
    /\ pending = << >>
    /\ loops[l].pc = "read"
    /\ \E amount \in BufferedAmounts :
        LET channel == CanSend("S", loops[l].peer) IN
        IF channel /\ Exceeds(amount)
        THEN /\ loops' = [loops EXCEPT ![l].pc = "bp"]
             /\ hist' = [hist EXCEPT !.buffered = << amount >>]
             /\ UNCHANGED << transfers, net, wire, cancelled >>
        ELSE /\ \E upd \in BOOLEAN : SendChunk(l, upd)
             /\ hist' = [hist EXCEPT !.buffered = IF channel THEN << amount >> ELSE << >>]
    /\ UNCHANGED << hookVars, peerRef, sendQueue, isSending, incoming, peers, pending,
                    nextId, fileOf, messages, codec, wakeLock >>

\* The read of the chunk fails (the file is gone): catch, finally.
LoopReadFail(l) ==
    /\ pending = << >>
    /\ loops[l].pc = "read"
    /\ Finally(l)
    /\ UNCHANGED << hookVars, transfers, peerRef, sendQueue, cancelled, incoming,
                    peers, net, pending, nextId, fileOf, wire, hist,
                    messages, codec >>

\* After a sleep(20) of the back-pressure loop.
LoopAfterSleep(l) ==
    /\ pending = << >>
    /\ loops[l].pc = "bp"
    /\ \E amount \in BufferedAmounts :
        /\ hist' = [hist EXCEPT !.buffered = << amount >>]
        /\ IF Exceeds(amount)
           THEN UNCHANGED << loops, transfers, net, wire, cancelled >>
           ELSE \E upd \in BOOLEAN : SendChunk(l, upd)
    /\ UNCHANGED << hookVars, peerRef, sendQueue, isSending, incoming, peers, pending,
                    nextId, fileOf, messages, codec, wakeLock >>

\* The list offers the cancel button for these records only.
CancelShown(t) == t.status \in {"queued", "transferring"}

WithoutEntryKept(q, id) == q

\* sendQueueRef.current.filter((e) => e.id !== id)
WithoutEntry(q, id) == SelectSeq(q, LAMBDA x : x # id)

\* The status cancelTransfer leaves on a record.
CancelledStatus(st) == IF st \in {"queued", "transferring"} THEN "cancelled" ELSE st

\* cancelTransfer(id) for a record of the list.  hist remembers the calls that
\* ran to their end, by the status and direction the record had.
CancelTransfer(e, id) ==
    LET t == transfers[e][id]
        g == peerRef[e]
        notify == t.status = "transferring" /\ g # 0 /\ ~IsDestroyed(e, g)
        done ==
            /\ sendQueue' = [sendQueue EXCEPT ![e] = WithoutEntry(@, id)]
            /\ transfers' = [transfers EXCEPT ![e] =
                  SetStatus(@, id, CancelledStatus(t.status))]
            /\ hist' = [hist EXCEPT
                  !.cancelQueued = IF t.status = "queued" THEN @ \cup {<<e, id>>} ELSE @,
                  !.cancelSend = IF t.status = "transferring" /\ t.direction = "send"
                                 THEN @ \cup {<<e, id>>} ELSE @,
                  !.cancelRecv = IF t.status = "transferring" /\ t.direction = "receive"
                                 THEN @ \cup {<<e, id>>} ELSE @]
    IN
    /\ pending = << >>
    /\ id \in DOMAIN transfers[e]
    /\ CancelShown(transfers[e][id])
    /\ cancelled' = [cancelled EXCEPT ![e] = @ \cup {id}]
    /\ IF notify
       THEN IF CanSend(e, g)
            THEN /\ net' = NetAfterSend(e, g, << CancelMsg(id) >>)
                 /\ wire' = WireAfterSend(e, g, << CancelMsg(id) >>)
                 /\ done
            ELSE \* peer.send throws out of cancelTransfer
                 /\ hist' = [hist EXCEPT !.thrown = @ \cup {"cancelTransfer"}]
                 /\ UNCHANGED << net, wire, sendQueue, transfers >>
       ELSE /\ done
            /\ UNCHANGED << net, wire >>
    /\ UNCHANGED << hookVars, peerRef, isSending, incoming, loops, peers, pending,
                    nextId, fileOf,
                    messages, codec, wakeLock >>

\* sendMessage(text) with a text that is not blank: nothing without a peer or
\* with a destroyed one; else peer.send, which throws out of sendMessage
\* unless the channel is open, and then the message is appended as 'me'.
SendMessage(e, text) ==
    LET g == peerRef[e] IN
    /\ pending = << >>
    /\ Len(SelectSeq(messages[e], LAMBDA c : c.sender = "me")) < MaxChats
    /\ IF g = 0 \/ IsDestroyed(e, g)
       THEN UNCHANGED << net, wire, messages, hist >>
       ELSE IF CanSend(e, g)
       THEN /\ net' = NetAfterSend(e, g, << ChatMsg(text) >>)
            /\ wire' = WireAfterSend(e, g, << ChatMsg(text) >>)
            /\ messages' = [messages EXCEPT ![e] =
                    Append(@, [text |-> text, sender |-> "me"])]
            /\ UNCHANGED hist
       ELSE /\ hist' = [hist EXCEPT !.thrown = @ \cup {"sendMessage"}]
            /\ UNCHANGED << net, wire, messages >>
    /\ UNCHANGED << hookVars, transfers, peerRef, sendQueue, isSending, cancelled,
                    incoming, loops, peers, pending, nextId, fileOf, codec, wakeLock >>

\* handleData: the payload is taken as a control message when it is text, or
\* bytes that decode to '{...}' and parse as JSON; else as a file chunk.
IsJson(m) == m.type # "chunk" \/ m.body = "json"
MsgType(m) == IF m.type = "chunk" THEN "none" ELSE m.type

HandleData(e) ==
    /\ pending = << >>
    /\ net[e] # << >>
    /\ peers[e][Head(net[e]).to].st = "open"
    /\ LET m == Head(net[e])
           inc == incoming[e]
       IN
        /\ net' = [net EXCEPT ![e] = Tail(@)]
        /\ IF IsJson(m)
           THEN CASE MsgType(m) = "file-meta" ->
                      /\ incoming' = [incoming EXCEPT ![e] =
                            [id |-> m.id, size |-> m.len, receivedBytes |-> 0]]
                      /\ transfers' = [transfers EXCEPT ![e] =
                            AddTransfer(@, m.id, NewTransfer(m.len, "transferring", "receive"))]
                      /\ UNCHANGED << cancelled, hist >>
                  [] MsgType(m) = "file-complete" /\ inc # Null ->
                      \* a.click(): the assembled file is handed over for saving
                      /\ hist' = [hist EXCEPT !.saved = @ \cup {<<e, inc.id>>}]
                      /\ transfers' = [transfers EXCEPT ![e] = SetCompleted(@, inc.id)]
                      /\ incoming' = [incoming EXCEPT ![e] = Null]
                      /\ UNCHANGED cancelled
                  [] MsgType(m) = "file-cancel" ->
                      LET cancelId == IF m.hasId THEN m.id
                                      ELSE IF inc # Null THEN inc.id ELSE 0
                      IN  /\ cancelled' = [cancelled EXCEPT ![e] =
                                IF cancelId # 0 THEN @ \cup {cancelId} ELSE @]
                          /\ transfers' = [transfers EXCEPT ![e] =
                                IF cancelId # 0 THEN SetStatus(@, cancelId, "cancelled") ELSE @]
                          /\ incoming' = [incoming EXCEPT ![e] =
                                IF inc # Null /\ inc.id # cancelId THEN inc ELSE Null]
                          /\ hist' = [hist EXCEPT !.discarded =
                                IF inc # Null /\ inc.id = cancelId
                                THEN @ \cup {<<e, cancelId>>} ELSE @]
                  [] OTHER -> UNCHANGED << incoming, transfers, cancelled, hist >>
           ELSE IF inc # Null
                THEN /\ incoming' = [incoming EXCEPT ![e].receivedBytes = @ + m.len]
                     /\ transfers' = [transfers EXCEPT ![e] =
                           SetProgress(@, inc.id, Progress(inc.receivedBytes + m.len, inc.size))]
                     /\ UNCHANGED << cancelled, hist >>
                ELSE UNCHANGED << incoming, transfers, cancelled, hist >>
        /\ messages' = IF IsJson(m) /\ MsgType(m) = "chat"
                       THEN [messages EXCEPT ![e] =
                               Append(@, [text |-> m.text, sender |-> "peer"])]
                       ELSE messages
        \* requestWakeLock() on entry; releaseWakeLock() where a file-complete
        \* finds an assembly and where a file-cancel is handled
        /\ wakeLock' = [wakeLock EXCEPT ![e] =
              IF IsJson(m) /\ ( \/ MsgType(m) = "file-complete" /\ inc # Null
                                \/ MsgType(m) = "file-cancel" )
              THEN ReleaseWakeLock(RequestWakeLock(@))
              ELSE RequestWakeLock(@)]
    /\ UNCHANGED << hookVars, peerRef, sendQueue, isSending, loops, peers, pending,
                    nextId, fileOf, wire, codec >>

\* ------------------------------------------------------ the signal codec
\* (src/src/lib/utils.ts)  A text is a sequence of pieces: "CR", "LF", "SP"
\* and the contents of SDP lines, which hold no white space at their ends.
SdpContents ==
    { "v=0", "a=mid:0", "a=msid-semantic: WMS", "a=msid:s t", "a=rtpmap:111 opus",
      "a=fmtp:111 x", "a=rtcp-fb:111 nack", "a=ssrc:1 cname", "a=extmap:1 urn" }

\* piece.startsWith(prefix), for the prefixes minifySDP asks about.
PrefixTable ==
    { <<"a=mid:0", "a=mid:">>, <<"a=msid-semantic: WMS", "a=msid-semantic:">>,
      <<"a=msid:s t", "a=msid:">>, <<"a=rtpmap:111 opus", "a=rtpmap">>,
      <<"a=fmtp:111 x", "a=fmtp">>, <<"a=rtcp-fb:111 nack", "a=rtcp-fb">>,
      <<"a=ssrc:1 cname", "a=ssrc">>, <<"a=extmap:1 urn", "a=extmap">> }

\* line.startsWith(prefix): decided by the first piece of the line.
StartsWith(line, prefix) == line # << >> /\ <<Head(line), prefix>> \in PrefixTable

\* sdp.split(/\r?\n/): cur is the line being read, acc the lines read.
RECURSIVE SplitFrom(_, _, _)
SplitFrom(text, cur, acc) ==
    IF text = << >> THEN Append(acc, cur)
    ELSE IF Head(text) = "LF"
    THEN SplitFrom(Tail(text), << >>,
                   Append(acc, IF cur # << >> /\ cur[Len(cur)] = "CR"
                               THEN SubSeq(cur, 1, Len(cur) - 1) ELSE cur))
    ELSE SplitFrom(Tail(text), Append(cur, Head(text)), acc)

SplitLines(text) == SplitFrom(text, << >>, << >>)

\* line.trim()
RECURSIVE Trim(_)
Trim(line) ==
    IF line = << >> THEN line
    ELSE IF Head(line) \in {"CR", "LF", "SP"} THEN Trim(Tail(line))
    ELSE IF line[Len(line)] \in {"CR", "LF", "SP"} THEN Trim(SubSeq(line, 1, Len(line) - 1))
    ELSE line

IsMediaJunkButMsid(line) ==
    \/ StartsWith(line, "a=rtpmap")
    \/ StartsWith(line, "a=fmtp")
    \/ StartsWith(line, "a=rtcp-fb")
    \/ StartsWith(line, "a=ssrc")
    \/ StartsWith(line, "a=extmap")

\* isMediaJunk of minifySDP
IsMediaJunk(line) ==
    \/ StartsWith(line, "a=rtpmap")
    \/ StartsWith(line, "a=fmtp")
    \/ StartsWith(line, "a=rtcp-fb")
    \/ StartsWith(line, "a=ssrc")
    \/ StartsWith(line, "a=extmap")
    \/ StartsWith(line, "a=msid:")

\* The filter of minifySDP.
KeepsLine(line) ==
    IF line = << >> THEN FALSE
    ELSE IF StartsWith(line, "a=mid:") \/ StartsWith(line, "a=msid-semantic:") THEN TRUE
    ELSE ~IsMediaJunk(line)

\* lines.join('\r\n')
RECURSIVE JoinCRLF(_)
JoinCRLF(lines) ==
    IF lines = << >> THEN << >>
    ELSE IF Len(lines) = 1 THEN lines[1]
    ELSE lines[1] \o << "CR", "LF" >> \o JoinCRLF(Tail(lines))

MinifySDP(sdp) ==
    LET lines == SplitLines(sdp)
        trimmed == [k \in 1..Len(lines) |-> Trim(lines[k])]
    IN  JoinCRLF(SelectSeq(trimmed, KeepsLine)) \o << "CR", "LF" >>

\* minified.replace(/\r?\n/g, '\r\n'): done is the text already rewritten.
RECURSIVE ReplaceFrom(_, _)
ReplaceFrom(text, done) ==
    IF text = << >> THEN done
    ELSE IF Head(text) = "LF" /\ (done = << >> \/ done[Len(done)] # "CR")
    THEN ReplaceFrom(Tail(text), done \o << "CR", "LF" >>)
    ELSE ReplaceFrom(Tail(text), Append(done, Head(text)))

EndsWithCRLF(text) ==
    Len(text) >= 2 /\ text[Len(text) - 1] = "CR" /\ text[Len(text)] = "LF"

RestoreSDP(minified) ==
    IF minified = << >> THEN << >>
    ELSE LET t == ReplaceFrom(minified, << >>)
         IN  IF EndsWithCRLF(t) THEN t ELSE t \o << "CR", "LF" >>

KEY_MAP == [type |-> "t", sdp |-> "s"]
REV_KEY_MAP == [t |-> "type", s |-> "sdp"]

\* table[k] || k
KeyOf(table, k) == IF k \in DOMAIN table THEN table[k] ELSE k

\* An object is a function from its keys; its entries under the keys of the
\* table.  The objects used have no two keys that map to one.
Renamed(obj, table) ==
    [k2 \in { KeyOf(table, k) : k \in DOMAIN obj } |->
        obj[CHOOSE k \in DOMAIN obj : KeyOf(table, k) = k2]]

\* payload.sdp && typeof payload.sdp === 'string'
HasSdp(obj) == "sdp" \in DOMAIN obj /\ obj["sdp"] # << >>

\* encodeSignal(data).  btoa(deflate(JSON.stringify(mapped))) is written as
\* the object mapped in the format "deflate": inflate(atob(.)) and JSON.parse
\* give mapped back.
EncodeSignal(data) ==
    LET payload == IF HasSdp(data)
                   THEN [data EXCEPT !["sdp"] = MinifySDP(@)] ELSE data
    IN  [fmt |-> "deflate", json |-> Renamed(payload, KEY_MAP)]

\* decodeSignal(encoded): a text in the format "legacy" is btoa(JSON.stringify
\* (obj)), which inflate rejects and the fallback parses; any other text makes
\* both attempts throw.
DecodeSignal(encoded) ==
    IF encoded.fmt = "deflate"
    THEN LET data == Renamed(encoded.json, REV_KEY_MAP)
         IN  [ok |-> TRUE,
              data |-> IF HasSdp(data)
                       THEN [data EXCEPT !["sdp"] = RestoreSDP(@)] ELSE data]
    ELSE IF encoded.fmt = "legacy"
    THEN [ok |-> TRUE, data |-> encoded.json]
    ELSE [ok |-> FALSE, data |-> DecodeFailure]

\* The SDP texts given to the codec: up to MaxSdpLines lines, each a content
\* or nothing, with or without blanks around it, ended by CRLF, LF or nothing.
LineForms == [pad : BOOLEAN, content : SdpContents \cup {""}, end : {"CRLF", "LF", ""}]

PiecesOf(f) ==
    (IF f.pad THEN << "SP" >> ELSE << >>)
    \o (IF f.content = "" THEN << >> ELSE << f.content >>)
    \o (IF f.pad THEN << "SP" >> ELSE << >>)
    \o (IF f.end = "CRLF" THEN << "CR", "LF" >>
        ELSE IF f.end = "LF" THEN << "LF" >> ELSE << >>)

RECURSIVE TextOf(_)
TextOf(forms) == IF forms = << >> THEN << >> ELSE PiecesOf(Head(forms)) \o TextOf(Tail(forms))

SdpTexts ==
    { TextOf(forms) : forms \in UNION { [1..n -> LineForms] : n \in 1..MaxSdpLines } }
    \ { << >> }

\* The signal blobs of the peer, and the texts decodeSignal can be given that
\* encodeSignal did not make: an object deflated without minifying or without
\* renaming, the plain base64 of JSON of older versions, and anything else.
Blobs == { [type |-> ty, sdp |-> sdp] : ty \in {"offer", "answer"}, sdp \in SdpTexts }
ForeignTexts ==
    { [fmt |-> f, json |-> b] : f \in {"deflate", "legacy"}, b \in Blobs }
    \cup { [fmt |-> "deflate", json |-> Renamed(b, KEY_MAP)] : b \in Blobs }
    \cup { [fmt |-> "garbage", json |-> << >>] }

allButCodec == << connectionState, localSignal, signalStatus, error, transfers, peerRef,
                 sendQueue, isSending, cancelled, incoming, loops, peers, net, pending,
                 nextId, fileOf, wire, hist, messages, wakeLock, timer >>

\* encodeSignal(data) as the 'signal' handler calls it.
EncodeCall(data) ==
    /\ codec = Null
    /\ codec' = [stage |-> "encoded", blob |-> data, text |-> EncodeSignal(data)]
    /\ UNCHANGED allButCodec

\* decodeSignal(text) with the text encodeSignal made, as acceptOffer and
\* acceptAnswer call it.
DecodeCall ==
    /\ codec # Null
    /\ codec.stage = "encoded"
    /\ codec' = [stage |-> "decoded", blob |-> codec.blob, text |-> codec.text,
                 out |-> DecodeSignal(codec.text)]
    /\ UNCHANGED allButCodec

\* decodeSignal(text) with a text from elsewhere.
DecodeForeign(text) ==
    /\ codec = Null
    /\ codec' = [stage |-> "foreign", text |-> text, out |-> DecodeSignal(text)]
    /\ UNCHANGED allButCodec

\* ------------------------------------------------------------------ Spec
Handshake ==
    \/ CreateOffer("S")
    \/ AcceptOffer("R")
    \/ \E e \in Ends : PeerSignal(e)
    \/ AcceptAnswer("S")
    \/ \E e \in Ends : PeerConnect(e)

Failures ==
    \/ \E e \in Ends : PeerError(e)
    \/ \E e \in Ends : RemoteClose(e)
    \/ \E l \in 1..MaxLoops : LoopReadFail(l)
    \/ \E e \in Ends : ConnectionTimeout(e)
    \/ AcceptBadOffer("R")

SendLoop ==
    \/ \E l \in 1..MaxLoops : LoopTop(l)
    \/ \E l \in 1..MaxLoops : LoopAfterRead(l)
    \/ \E l \in 1..MaxLoops : LoopAfterSleep(l)

\* Every command and event, with up to FullFiles files of two chunks.
Next ==
    \/ Handshake
    \/ Failures
    \/ PeerEvent
    \/ Disconnect("S")
    \/ \E files \in Batches(TwoChunkFile) : SendFiles(files, FullFiles)
    \/ SendLoop
    \/ \E e \in Ends : \E id \in Ids : CancelTransfer(e, id)
    \/ \E e \in Ends : HandleData(e)

Spec == Init /\ [][Next]_vars

\* Every command and event, with one file of any kind.
NextFiles ==
    \/ Handshake
    \/ Failures
    \/ AcceptBadAnswer("S")
    \/ \E e \in Ends : PeerUnsupported(e)
    \/ PeerEvent
    \/ Disconnect("S")
    \/ \E files \in Batches(FileKinds) : SendFiles(files, OneFile)
    \/ SendLoop
    \/ \E e \in Ends : \E id \in Ids : CancelTransfer(e, id)
    \/ \E e \in Ends : HandleData(e)

SpecFiles == Init /\ [][NextFiles]_vars

\* The runs on one connection that stays up: no failure, no disconnect.
NextLive ==
    \/ Handshake
    \/ \E files \in Batches(TwoChunkFile) : SendFiles(files, FullFiles)
    \/ SendLoop
    \/ \E e \in Ends : \E id \in Ids : CancelTransfer(e, id)
    \/ \E e \in Ends : HandleData(e)

SpecLive == Init /\ [][NextLive]_vars

\* The runs without a failure of the connection or of a read, with up to
\* MaxFiles small files; the sender may cancel.
NextPump ==
    \/ Handshake
    \/ PeerEvent
    \/ Disconnect("S")
    \/ \E files \in Batches(SmallFile) : SendFiles(files, MaxFiles)
    \/ SendLoop
    \/ \E id \in Ids : CancelTransfer("S", id)
    \/ HandleData("R")

SpecPump == Init /\ [][NextPump]_vars

\* The runs on one connection that stays up, with one file of ChatFiles and
\* the chat; the send loop, the 'connect' event of a peer whose channel has
\* opened and the handling of arrived data are not starved.
NextChat ==
    \/ Handshake
    \/ \E files \in Batches(ChatFiles) : SendFiles(files, OneFile)
    \/ SendLoop
    \/ \E e \in Ends : HandleData(e)
    \/ \E text \in ChatTexts : SendMessage("S", text)

SpecChat ==
    /\ Init
    /\ [][NextChat]_vars
    /\ WF_vars(SendLoop)
    /\ \A e \in Ends : WF_vars(PeerConnect(e))
    /\ \A e \in Ends : WF_vars(HandleData(e))

\* The codec alone: one signal encoded and decoded, or one text decoded.
NextCodec ==
    \/ codec = Null /\ \E data \in Blobs : EncodeCall(data)
    \/ DecodeCall
    \/ codec = Null /\ \E text \in ForeignTexts : DecodeForeign(text)

SpecCodec == Init /\ [][NextCodec]_vars

\* Every command and event in a browser with the Screen Wake Lock API, with
\* one file of two chunks.
NextWake ==
    \/ Handshake
    \/ \E e \in Ends : \E granted \in BOOLEAN : WakeLockSettles(e, granted)
    \/ \E e \in Ends : PeerError(e)
    \/ \E l \in 1..MaxLoops : LoopReadFail(l)
    \/ PeerEvent
    \/ Disconnect("S")
    \/ \E files \in Batches(TwoChunkFile) : SendFiles(files, OneFile)
    \/ SendLoop
    \/ \E e \in Ends : \E id \in Ids : CancelTransfer(e, id)
    \/ \E e \in Ends : HandleData(e)

SpecWake == InitWake /\ [][NextWake]_vars

\* The runs of one file of two chunks on a connection that can fail; the send
\* loop, the 'connect' events, the handling of arrived data, the queued peer
\* events and the closing of a channel whose other side is gone are not
\* starved.
NextDead ==
    \/ Handshake
    \/ \E e \in Ends : PeerError(e)
    \/ \E e \in Ends : RemoteClose(e)
    \/ PeerEvent
    \/ \E files \in Batches(TwoChunkFile) : SendFiles(files, OneFile)
    \/ SendLoop
    \/ \E e \in Ends : HandleData(e)

SpecDead ==
    /\ Init
    /\ [][NextDead]_vars
    /\ WF_vars(SendLoop)
    /\ WF_vars(PeerEvent)
    /\ \A e \in Ends : WF_vars(PeerConnect(e))
    /\ \A e \in Ends : WF_vars(HandleData(e))
    /\ \A e \in Ends : WF_vars(RemoteClose(e))

\* ---------------------------------------------------------------- claims
\* What S put on the wire for one file, in order.
WireOf(id) == SelectSeq(wire, LAMBDA m : m.id = id)

Positions(id) == { p \in 1..Len(wire) : wire[p].id = id }
HasOnWire(id, type) == \E p \in Positions(id) : wire[p].type = type

RECURSIVE SumLen(_)
SumLen(w) == IF w = << >> THEN 0 ELSE Head(w).len + SumLen(Tail(w))

\* ceil(N / 65536) by its definition: the least k with k * 65536 >= N.
CeilChunks(N) ==
    CHOOSE k \in 0..N : k * 65536 >= N /\ \A j \in 0..(k - 1) : j * 65536 < N

\* No cancelTransfer call has named the file, at either endpoint.
NeverCancelled(id) ==
    \A e \in Ends : <<e, id>> \notin hist.cancelQueued \cup hist.cancelSend \cup hist.cancelRecv

\* C1: for a file of N bytes that nobody cancels, what the sender puts on the
\* wire is at every moment a prefix of: one file-meta (size N, totalChunks =
\* ceil(N/65536)), ceil(N/65536) chunks, one file-complete; the chunks of the
\* whole sequence sum to N bytes; and once the sender has marked the file
\* completed the whole sequence is on the wire.
C1_WireOfOneFile ==
    \A id \in 1..nextId :
        LET w == WireOf(id)
            N == fileOf[id].size
            k == CeilChunks(N)
        IN  NeverCancelled(id) =>
              /\ Len(w) <= k + 2
              /\ \A p \in 1..Len(w) :
                    /\ p = 1 => w[p].type = "file-meta" /\ w[p].len = N /\ w[p].total = k
                    /\ (1 < p /\ p <= k + 1) => w[p].type = "chunk" /\ w[p].len <= 65536
                    /\ p = k + 2 => w[p].type = "file-complete"
              /\ Len(w) = k + 2 => SumLen(SubSeq(w, 2, k + 1)) = N
              /\ (id \in DOMAIN transfers["S"] /\ transfers["S"][id].status = "completed")
                    => Len(w) = k + 2

\* A file of two chunks was sent to its end.
C1_Witness ==
    /\ nextId = 1
    /\ fileOf[1].size = 98304
    /\ 1 \in DOMAIN transfers["S"]
    /\ transfers["S"][1].status = "completed"
    /\ Len(WireOf(1)) = 4

\* C2: when the receiver is about to handle the file-complete of the file it
\* is assembling, the assembly holds as many bytes as the file-meta announced.
C2_AllBytesAssembled ==
    LET q == net["R"] IN
    ( /\ q # << >>
      /\ Head(q).type = "file-complete"
      /\ peers["R"][Head(q).to].st = "open"
      /\ incoming["R"] # Null
      /\ incoming["R"].id = Head(q).id )
    => incoming["R"].receivedBytes = incoming["R"].size

\* C3: of two files that were both sent to their file-complete and never
\* cancelled, every message of the one enqueued first precedes every message
\* of the other on the wire.
C3_FifoOnWire ==
    \A i, j \in 1..nextId :
        ( /\ i < j
          /\ NeverCancelled(i) /\ NeverCancelled(j)
          /\ HasOnWire(i, "file-complete") /\ HasOnWire(j, "file-complete") )
        => \A p \in Positions(i) : \A q \in Positions(j) : p < q

\* C4: between a file-meta and the next file-meta on the wire there is a
\* file-complete or a file-cancel of the file the first one announced.
C4_MetaAfterTerminator ==
    \A p, q \in 1..Len(wire) :
        ( /\ p < q
          /\ wire[p].type = "file-meta"
          /\ wire[q].type = "file-meta"
          /\ \A r \in (p + 1)..(q - 1) : wire[r].type # "file-meta" )
        => \E r \in (p + 1)..(q - 1) :
              /\ wire[r].type \in {"file-complete", "file-cancel"}
              /\ wire[r].id = wire[p].id

\* C5: at most one invocation of processNextFile is past its isSending guard.
C5_OneSendLoop == Cardinality({ l \in 1..MaxLoops : loops[l].pc # "idle" }) <= 1

\* C6: a sent file whose record was transferring when cancelTransfer ran has
\* no file-complete on the wire and, for as long as its record exists, the
\* status cancelled.
C6_CancelledSendStaysCancelled ==
    \A id \in Ids :
        <<"S", id>> \in hist.cancelSend =>
            /\ ~HasOnWire(id, "file-complete")
            /\ id \in DOMAIN transfers["S"] => transfers["S"][id].status = "cancelled"

\* C7: a file whose record was queued when cancelTransfer ran is not in the
\* send queue, has the status cancelled for as long as its record exists, and
\* has no message on the wire.
C7_CancelQueuedIsSilent ==
    \A id \in Ids :
        <<"S", id>> \in hist.cancelQueued =>
            /\ \A k \in 1..Len(sendQueue["S"]) : sendQueue["S"][k] # id
            /\ id \in DOMAIN transfers["S"] => transfers["S"][id].status = "cancelled"
            /\ Positions(id) = {}

\* The second file was cancelled while queued, the first was sent to its end
\* and the send loop has returned.
C7_Witness ==
    /\ <<"S", 2>> \in hist.cancelQueued
    /\ 1 \in DOMAIN transfers["S"]
    /\ transfers["S"][1].status = "completed"
    /\ HasOnWire(1, "file-complete")
    /\ \A l \in 1..MaxLoops : loops[l].pc = "idle"

\* C8: handling a file-cancel for the file under assembly discards the
\* assembly and marks its record cancelled, and handling a later chunk of a
\* file whose assembly was discarded so changes no record.  A step of
\* handleData on R is one that takes the head of net["R"] and leaves the
\* peers alone.
C8_CancelDiscardsAssembly ==
    [][ LET q == net["R"]
            inc == incoming["R"]
        IN  (q # << >> /\ net'["R"] = Tail(q) /\ peers' = peers) =>
              /\ ( /\ Head(q).type = "file-cancel"
                   /\ inc # Null
                   /\ (Head(q).hasId => Head(q).id = inc.id) )
                 => /\ incoming'["R"] = Null
                    /\ transfers'["R"][inc.id].status = "cancelled"
              /\ ( /\ Head(q).type = "chunk"
                   /\ <<"R", Head(q).id>> \in hist.discarded )
                 => transfers'["R"] = transfers["R"] ]_vars

\* C9: after cancelTransfer ran for a receive record that was transferring,
\* the receiver holds no assembly for that file.
C9_CancelReceiveDiscards ==
    \A id \in Ids :
        <<"R", id>> \in hist.cancelRecv =>
            ~(incoming["R"] # Null /\ incoming["R"].id = id)

\* C10: a record whose status is cancelled keeps that status for as long as
\* it exists.
C10_CancelledIsTerminal ==
    [][ \A e \in Ends : \A id \in DOMAIN transfers[e] :
            (transfers[e][id].status = "cancelled" /\ id \in DOMAIN transfers'[e])
            => transfers'[e][id].status = "cancelled" ]_vars

\* A step of handleData on R: it takes the head of net["R"] and leaves the
\* peers alone.
HandlesOnR == net["R"] # << >> /\ net'["R"] = Tail(net["R"]) /\ peers' = peers

\* C11: handling a file-complete for an assembly whose id is in the cancelled
\* set hands no file over for saving and does not mark the record completed.
C11_CancelledNeverFinalized ==
    [][ LET inc == incoming["R"] IN
        ( /\ HandlesOnR
          /\ Head(net["R"]).type = "file-complete"
          /\ inc # Null
          /\ inc.id \in cancelled["R"] )
        => /\ hist'.saved = hist.saved
           /\ inc.id \in DOMAIN transfers'["R"]
                 => transfers'["R"][inc.id].status # "completed" ]_vars

Terminal == {"completed", "cancelled", "error"}

\* C12: a record whose status is completed, cancelled or error is the same
\* record after every step that keeps it.
C12_TerminalRecordFrozen ==
    [][ \A e \in Ends : \A id \in DOMAIN transfers[e] :
            (transfers[e][id].status \in Terminal /\ id \in DOMAIN transfers'[e])
            => transfers'[e][id] = transfers[e][id] ]_vars

\* C13: a record has progress 100 exactly when its status is completed.
C13_FullIffCompleted ==
    \A e \in Ends : \A id \in DOMAIN transfers[e] :
        transfers[e][id].progress = 100 <=> transfers[e][id].status = "completed"

\* C14: the progress of a record is within 0..100 and no step that keeps the
\* record lowers it.
C14_ProgressMonotone ==
    [][ \A e \in Ends : \A id \in DOMAIN transfers'[e] :
            /\ transfers'[e][id].progress \in 0..100
            /\ id \in DOMAIN transfers[e]
                  => transfers'[e][id].progress >= transfers[e][id].progress ]_vars

\* A receive stands at 67 percent after the first of two chunks while the
\* sender has sent the whole file.
C14_Witness ==
    /\ 1 \in DOMAIN transfers["R"] /\ transfers["R"][1].progress = 67
    /\ 1 \in DOMAIN transfers["S"] /\ transfers["S"][1].progress = 100

\* The step after which disconnect() and the peer events its destroy() queued
\* have run: the call itself when it destroyed no peer, else the last of the
\* queued events (peerRef is null only initially and after disconnect()).
DisconnectSettles ==
    \/ Disconnect("S") /\ pending' = << >>
    \/ /\ PeerEvent
       /\ Head(pending).e = "S"
       /\ peerRef["S"] = 0
       /\ pending' = << >>

\* What disconnect() is to leave behind.
DisconnectedState ==
    /\ connectionState["S"] = "idle"
    /\ DOMAIN transfers["S"] = {}
    /\ error["S"] = "null"
    /\ localSignal["S"] = Null
    /\ signalStatus["S"] = "null"
    /\ sendQueue["S"] = << >>
    /\ cancelled["S"] = {}
    /\ incoming["S"] = Null
    /\ peerRef["S"] = 0

\* C15: once disconnect() and what it set off have run, connectionState is
\* idle, the transfers are empty, error, localSignal and signalStatus are
\* cleared, the send queue and the cancelled set are empty, and there is no
\* incoming assembly and no peer handle.
C15_DisconnectResets == [][DisconnectSettles => DisconnectedState']_vars

\* Every assignment of disconnect() would assign the value already there.
DisconnectChangesNothing ==
    /\ ~Live("S", peerRef["S"])
    /\ peerRef["S"] = 0
    /\ connectionState["S"] = "idle"
    /\ localSignal["S"] = Null
    /\ signalStatus["S"] = "null"
    /\ transfers["S"] = << >>
    /\ error["S"] = "null"
    /\ sendQueue["S"] = << >>
    /\ isSending["S"] = FALSE
    /\ cancelled["S"] = {}
    /\ incoming["S"] = Null

\* C16: in the state disconnect() and what it set off leave, a second
\* disconnect() changes nothing.
C16_DisconnectIdempotent == [][DisconnectSettles => DisconnectChangesNothing']_vars

C18_AnswerMovesToConnecting ==
    [][ ( /\ AcceptAnswer("S")
          /\ connectionState["S"] = "waiting-for-peer"
          /\ Live("S", peerRef["S"]) )
        => /\ peers'["S"] # peers["S"]
           /\ connectionState'["S"] = "connecting" ]_vars

\* A command that starts a session anew.
ResetStep(e) ==
    \/ e = "S" /\ (Disconnect("S") \/ CreateOffer("S"))
    \/ e = "R" /\ (AcceptOffer("R") \/ AcceptBadOffer("R"))

\* C19: while an endpoint is connecting or waiting for its peer the timeout
\* can fire; when it fires the peer is destroyed and the state is error with
\* connectionTimeout; and that state is left only by a reset.
C19_TimeoutToError ==
    [][ \A e \in Ends :
          /\ (pending = << >> /\ connectionState[e] \in {"connecting", "waiting-for-peer"})
                => ENABLED ConnectionTimeout(e)
          /\ ConnectionTimeout(e)
                => /\ connectionState'[e] = "error"
                   /\ error'[e] = "connectionTimeout"
                   /\ ~Live(e, peerRef[e])'
          /\ ( /\ connectionState[e] = "error"
               /\ error[e] = "connectionTimeout"
               /\ ~ResetStep(e) )
                => connectionState'[e] = "error" ]_vars

\* C20: acceptOffer with a text the codec cannot decode leaves error with
\* invalidOfferFormat, and the peer handle and the peers as they were.
C20_BadOfferNoPeer ==
    [][ AcceptBadOffer("R")
        => /\ connectionState'["R"] = "error"
           /\ error'["R"] = "invalidOfferFormat"
           /\ peerRef'["R"] = peerRef["R"]
           /\ peers'["R"] = peers["R"] ]_vars

\* C21: acceptAnswer does not throw; with a text the codec cannot decode it
\* leaves error with invalidAnswerFormat, and with the responder's answer
\* but no peer to give it to it leaves error with invalidAnswer.
C21_AnswerErrors ==
    [][ /\ AcceptBadAnswer("S")
              => /\ connectionState'["S"] = "error"
                 /\ error'["S"] = "invalidAnswerFormat"
                 /\ hist'.thrown = hist.thrown
        /\ (AcceptAnswer("S") /\ ~Live("S", peerRef["S"]))
              => /\ connectionState'["S"] = "error"
                 /\ error'["S"] = "invalidAnswer"
                 /\ hist'.thrown = hist.thrown ]_vars

\* C22: the handler of a peer's 'error' event leaves connectionState error,
\* and error iceFailed when the message mentions ICE, else webrtcUnsupported
\* when the code is the one for an unsupported environment, else the message.
C22_ErrorClassified ==
    [][ (PeerEvent /\ Head(pending).kind = "error") =>
          LET ev == Head(pending) IN
          /\ connectionState'[ev.e] = "error"
          /\ error'[ev.e] =
                IF ev.err.message \in {"Ice connection failed.", "Ice connection closed."}
                THEN "iceFailed"
                ELSE IF ev.err.code = "ERR_WEBRTC_SUPPORT" THEN "webrtcUnsupported"
                ELSE ev.err.message ]_vars

\* C23: no command of the hook has thrown to its caller.
C23_NoCommandThrows == hist.thrown = {}

\* The chat messages S put on the wire, those still on their way to R, and
\* the ChatMessages an endpoint holds from one sender.
ChatsOnWire == SelectSeq(wire, LAMBDA m : m.type = "chat")
ChatsToR == SelectSeq(net["R"], LAMBDA m : m.type = "chat")
ChatsOf(e, sender) == SelectSeq(messages[e], LAMBDA c : c.sender = sender)

\* S sent a chat message after the file-meta of the file and before its
\* file-complete.
ChatInFlight(id) ==
    \E q \in 1..Len(wire) :
        /\ wire[q].type = "chat"
        /\ \E p \in 1..(q - 1) : wire[p].type = "file-meta" /\ wire[p].id = id
        /\ \A r \in 1..(q - 1) : ~(wire[r].type = "file-complete" /\ wire[r].id = id)

BothCompleted(id) ==
    /\ id \in DOMAIN transfers["S"] /\ transfers["S"][id].status = "completed"
    /\ id \in DOMAIN transfers["R"] /\ transfers["R"][id].status = "completed"
    /\ <<"R", id>> \in hist.saved

\* The chat messages are on the wire in the order sendMessage was called, R
\* holds one ChatMessage from its peer for each that has arrived, with the
\* text sent, and the file-complete of a file that was in flight when one was
\* sent finds all its bytes assembled.
ChatIntact ==
    /\ Len(ChatsOnWire) = Len(ChatsOf("S", "me"))
    /\ \A k \in 1..Len(ChatsOnWire) : ChatsOnWire[k].text = ChatsOf("S", "me")[k].text
    /\ Len(ChatsOf("R", "peer")) + Len(ChatsToR) = Len(ChatsOnWire)
    /\ \A k \in 1..Len(ChatsOf("R", "peer")) :
          ChatsOf("R", "peer")[k].text = ChatsOnWire[k].text
    /\ ( /\ net["R"] # << >>
         /\ Head(net["R"]).type = "file-complete"
         /\ incoming["R"] # Null
         /\ ChatInFlight(incoming["R"].id) )
       => incoming["R"].receivedBytes = incoming["R"].size

\* C24: chat messages sent by S reach R once each, with their text and in the
\* order sent, and a file that was in flight when one was sent ends completed
\* at both endpoints with all its bytes assembled and saved.
C24_ChatDuringTransfer ==
    /\ []ChatIntact
    /\ \A id \in Ids : ChatInFlight(id) ~> BothCompleted(id)

\* The file-cancel messages S put on the wire for a file.
CancelsOnWire(id) == { p \in Positions(id) : wire[p].type = "file-cancel" }

\* C25: a sent file whose record was transferring when cancelTransfer ran has
\* exactly one file-cancel on the wire and, for as long as its record exists,
\* the status cancelled.
C25_OneCancelOnWire ==
    \A id \in Ids :
        <<"S", id>> \in hist.cancelSend =>
            /\ Cardinality(CancelsOnWire(id)) = 1
            /\ id \in DOMAIN transfers["S"] => transfers["S"][id].status = "cancelled"

\* a is b with some of its elements left out.
RECURSIVE IsSubSeq(_, _)
IsSubSeq(a, b) ==
    IF a = << >> THEN TRUE
    ELSE IF b = << >> THEN FALSE
    ELSE IF Head(a) = Head(b) THEN IsSubSeq(Tail(a), Tail(b))
    ELSE IsSubSeq(a, Tail(b))

StripList == {"a=rtpmap", "a=fmtp", "a=rtcp-fb", "a=ssrc", "a=extmap", "a=msid:"}
InStripList(line) == \E prefix \in StripList : StartsWith(line, prefix)

\* The lines of a text, trimmed, without the empty ones.
TrimmedLines(text) ==
    LET lines == SplitLines(text) IN
    SelectSeq([k \in 1..Len(lines) |-> Trim(lines[k])], LAMBDA line : line # << >>)

\* Every LF of the text follows a CR and the text ends with CR LF.
CrlfTerminated(text) ==
    /\ Len(text) >= 2
    /\ text[Len(text) - 1] = "CR" /\ text[Len(text)] = "LF"
    /\ \A k \in 1..Len(text) : text[k] = "LF" => (k > 1 /\ text[k - 1] = "CR")

\* C26: decodeSignal(encodeSignal(x)) for a blob x with a non-empty SDP has
\* the type of x and an sdp that holds, in their order, the trimmed non-empty
\* lines of x.sdp that start with no prefix of the strip-list, holds no line
\* that starts with one, holds the a=msid-semantic: lines, and ends every
\* line with CRLF.
C26_RoundTrip ==
    (codec # Null /\ codec.stage = "decoded") =>
        LET x == codec.blob
            y == codec.out
            lines == TrimmedLines(x.sdp)
            kept == SelectSeq(lines, LAMBDA line : ~InStripList(line))
        IN  /\ y.ok
            /\ y.data["type"] = x.type
            /\ IsSubSeq(kept, SplitLines(y.data["sdp"]))
            /\ \A k \in 1..Len(SplitLines(y.data["sdp"])) :
                  ~InStripList(SplitLines(y.data["sdp"])[k])
            /\ \A k \in 1..Len(lines) :
                  StartsWith(lines[k], "a=msid-semantic:")
                  => \E j \in 1..Len(SplitLines(y.data["sdp"])) :
                        SplitLines(y.data["sdp"])[j] = lines[k]
            /\ CrlfTerminated(y.data["sdp"])

\* An offer of two lines, the first a=msid-semantic: ended by a bare LF, the
\* second a=msid: between blanks, came back as the first line with CRLF.
C26_Witness ==
    /\ codec # Null
    /\ codec.stage = "decoded"
    /\ codec.blob.type = "offer"
    /\ codec.blob.sdp = << "a=msid-semantic: WMS", "LF", "SP", "a=msid:s t", "SP" >>
    /\ codec.text.json["s"] = << "a=msid-semantic: WMS", "CR", "LF" >>
    /\ codec.out.data["sdp"] = << "a=msid-semantic: WMS", "CR", "LF" >>

\* C27: whenever decodeSignal returns an object with a non-empty sdp, every
\* LF of that sdp follows a CR and the sdp ends with CRLF.
C27_DecodedSdpCrlf ==
    ( /\ codec # Null
      /\ codec.stage \in {"decoded", "foreign"}
      /\ codec.out.ok
      /\ HasSdp(codec.out.data) )
    => CrlfTerminated(codec.out.data["sdp"])

\* The record of a file, if there is one, has the status error.
MarkedError(tr, id) == id \in DOMAIN tr => tr[id].status = "error"

\* C28: when the send of a chunk fails (the peer was destroyed in the middle
\* of the file) the file's record becomes error and the loop leaves the file;
\* when the send of a file-meta fails the file's record becomes error too;
\* and back from the pause between files the loop takes the next queued file
\* if the peer can send and returns if the peer is gone.
C28_SendFailureMarksError ==
    [][ \A l \in 1..MaxLoops :
          /\ ( /\ LoopAfterRead(l) \/ LoopAfterSleep(l)
               /\ ~CanSend("S", loops[l].peer)
               /\ loops'[l].pc # "bp" )
             => /\ MarkedError(transfers'["S"], loops[l].id)
                /\ loops'[l].pc = "pause"
          /\ ( /\ LoopTop(l)
               /\ sendQueue["S"] # << >>
               /\ Live("S", peerRef["S"])
               /\ ~CanSend("S", peerRef["S"]) )
             => MarkedError(transfers'["S"], Head(sendQueue["S"]))
          /\ ( /\ LoopTop(l)
               /\ loops[l].pc = "pause"
               /\ sendQueue["S"] # << >> )
             => IF CanSend("S", peerRef["S"])
                THEN loops'[l].id = Head(sendQueue["S"])
                ELSE ~Live("S", peerRef["S"]) => loops'[l].pc = "idle" ]_vars

\* C29: a step of the send loop after a suspension puts a message on the
\* wire only for a file that is not in the cancelled set and on a peer that
\* is not destroyed: after the read of a chunk, after a back-pressure sleep
\* and after the pause between files.
C29_RecheckAfterSuspension ==
    [][ \A l \in 1..MaxLoops :
          /\ ( /\ LoopAfterRead(l) \/ LoopAfterSleep(l)
               /\ Len(wire') > Len(wire) )
             => /\ loops[l].id \notin cancelled["S"]
                /\ ~IsDestroyed("S", loops[l].peer)
          /\ ( /\ LoopTop(l)
               /\ Len(wire') > Len(wire) )
             => /\ Head(sendQueue["S"]) \notin cancelled["S"]
                /\ ~IsDestroyed("S", peerRef["S"]) ]_vars

\* C30: a step of the send loop that puts a chunk on the wire has read a
\* buffered amount of at most 1,048,576, and a step that has read more sends
\* nothing, changes no record and leaves the loop waiting.
C30_BackPressure ==
    [][ \A l \in 1..MaxLoops :
          (LoopAfterRead(l) \/ LoopAfterSleep(l)) =>
              /\ Len(wire') > Len(wire)
                    => /\ hist'.buffered # << >>
                       /\ hist'.buffered[1] <= 1048576
              /\ (hist'.buffered # << >> /\ hist'.buffered[1] > 1048576)
                    => /\ wire' = wire
                       /\ transfers' = transfers
                       /\ loops'[l].pc = "bp" ]_vars

\* A send loop waits with the second chunk of a file because the buffered
\* amount it read was one byte above the mark.
C30_Witness ==
    /\ loops[1].pc = "bp"
    /\ loops[1].id = 1
    /\ loops[1].i = 1
    /\ hist.buffered = << 1048577 >>
    /\ Len(WireOf(1)) = 2
    /\ transfers["S"][1].status = "transferring"

\* An invocation of processNextFile returns in this step.
LoopExits(l) == loops[l].pc # "idle" /\ loops'[l].pc = "idle"

NoLoopRuns == \A l \in 1..MaxLoops : loops[l].pc = "idle"

\* C31: the step in which the send loop returns, by whichever path, leaves
\* isSending false and no wake lock sentinel in wakeLockRef; and isSending is
\* false whenever no invocation of the send loop is running.
C31_LoopCleanup ==
    /\ [][ \A l \in 1..MaxLoops :
              LoopExits(l) => /\ ~isSending'["S"]
                              /\ wakeLock'["S"] # "held" ]_vars
    /\ [](NoLoopRuns => ~isSending["S"])

\* The send loop has returned from a failed read on an open connection: the
\* file-meta is on the wire, the record is still transferring, nothing is
\* queued.
C31_Witness ==
    /\ NoLoopRuns
    /\ nextId = 1
    /\ CanSend("S", peerRef["S"])
    /\ HasOnWire(1, "file-meta")
    /\ 1 \in DOMAIN transfers["S"] /\ transfers["S"][1].status = "transferring"
    /\ sendQueue["S"] = << >>
    /\ ~isSending["S"]
    /\ wakeLock["S"] = "none"

\* C32: when R handles a file-meta while it holds an assembly, the record of
\* the assembly's file becomes error, and the file-meta announces another id.
C32_TruncatedOnNewMeta ==
    [][ ( /\ HandleData("R")
          /\ Head(net["R"]).type = "file-meta"
          /\ incoming["R"] # Null )
        => /\ MarkedError(transfers'["R"], incoming["R"].id)
           /\ Head(net["R"]).id # incoming["R"].id ]_vars

\* A step of the send loop l that puts a file-cancel on the wire.
LoopSendsCancel(l) ==
    /\ LoopTop(l) \/ LoopAfterRead(l) \/ LoopAfterSleep(l)
    /\ \E p \in (Len(wire) + 1)..Len(wire') : wire'[p].type = "file-cancel"

\* C33: every file-cancel S put on the wire and every file-cancel on its way
\* to S carries the id of its file; and the step of the send loop that sends
\* one leaves the file's id out of the cancelled set and its record cancelled.
C33_CancelCarriesId ==
    /\ [](\A p \in 1..Len(wire) : wire[p].type = "file-cancel" => wire[p].hasId)
    /\ [](\A p \in 1..Len(net["S"]) : net["S"][p].type = "file-cancel" => net["S"][p].hasId)
    /\ [][ \A l \in 1..MaxLoops :
              LoopSendsCancel(l)
              => /\ loops'[l].id \notin cancelled'["S"]
                 /\ loops'[l].id \in DOMAIN transfers'["S"]
                 /\ transfers'["S"][loops'[l].id].status = "cancelled" ]_vars

\* The event at the head of the queue is one of a peer that is no longer the
\* one in peerRef.
StaleEvent == pending # << >> /\ Head(pending).g # peerRef[Head(pending).e]

\* C34: handling an event of a peer that disconnect() destroyed, or that a
\* new peer has replaced, leaves connectionState, signalStatus, error,
\* isSending and the transfers of its endpoint as they were.
C34_StaleEventsIgnored ==
    [][ (PeerEvent /\ StaleEvent) =>
          LET e == Head(pending).e IN
          /\ connectionState'[e] = connectionState[e]
          /\ signalStatus'[e] = signalStatus[e]
          /\ error'[e] = error[e]
          /\ isSending'[e] = isSending[e]
          /\ transfers'[e] = transfers[e] ]_vars

\* The file is in the send queue, or is the one an invocation of the send
\* loop is working on.
InSendQueue(id) == \E k \in 1..Len(sendQueue["S"]) : sendQueue["S"][k] = id
InSendLoop(id) == \E l \in 1..MaxLoops : loops[l].pc # "idle" /\ loops[l].id = id

\* C35: a send record whose file is neither in the send queue nor the one the
\* send loop is working on does not have the status queued.
C35_NoEntryLost ==
    \A id \in DOMAIN transfers["S"] :
        ( /\ transfers["S"][id].direction = "send"
          /\ ~InSendQueue(id)
          /\ ~InSendLoop(id) )
        => transfers["S"][id].status # "queued"

\* The peer of the endpoint is destroyed and its 'error' and 'close' events
\* have been handled.
DeadPeer(e) == peerRef[e] # 0 /\ IsDestroyed(e, peerRef[e]) /\ pending = << >>

Transferring(e, id) == id \in DOMAIN transfers[e] /\ transfers[e][id].status = "transferring"
Settled(e, id) == id \in DOMAIN transfers[e] => transfers[e][id].status \in Terminal

\* C36: once the peer of an endpoint has closed or failed, every record of
\* the endpoint that is transferring is terminal at some later moment, and
\* an incoming assembly the endpoint holds is gone at some later moment.
C36_DeadConnectionSettles ==
    /\ \A e \in Ends : \A id \in Ids :
          (DeadPeer(e) /\ Transferring(e, id)) ~> Settled(e, id)
    /\ \A e \in Ends : (DeadPeer(e) /\ incoming[e] # Null) ~> (incoming[e] = Null)

\* No message about the file is on its way to either endpoint and no
\* invocation of the send loop is working on it.
NothingInFlight(id) ==
    /\ \A e \in Ends : \A k \in 1..Len(net[e]) : net[e][k].id # id
    /\ ~InSendLoop(id)

\* C37: when both endpoints hold a terminal record of a file and nothing
\* about the file is in flight any more, the two records have the same
\* status.
C37_OutcomeAgreed ==
    \A id \in Ids :
        ( /\ id \in DOMAIN transfers["S"] /\ transfers["S"][id].status \in Terminal
          /\ id \in DOMAIN transfers["R"] /\ transfers["R"][id].status \in Terminal
          /\ NothingInFlight(id) )
        => transfers["S"][id].status = transfers["R"][id].status

\* The chunks of the file that are on the wire before position p.
ChunksBefore(id, p) == { q \in Positions(id) : q < p /\ wire[q].type = "chunk" }

\* C38: no file has both a file-complete and a file-cancel on the wire, and
\* a file-complete on the wire follows the file-meta of its file and as many
\* chunks of the file as that file-meta announced.
C38_CompleteXorCancel ==
    \A id \in 1..nextId :
        /\ ~(HasOnWire(id, "file-complete") /\ HasOnWire(id, "file-cancel"))
        /\ \A p \in Positions(id) :
              wire[p].type = "file-complete"
              => \E m \in Positions(id) :
                    /\ m < p
                    /\ wire[m].type = "file-meta"
                    /\ Cardinality(ChunksBefore(id, p)) = wire[m].total

\* cancelTransfer sent its file-cancel while the send loop was reading the
\* last chunk: both chunks of the file are on the wire, the second after the
\* file-cancel, the loop has left the file, and there is no file-complete.
C38_Witness ==
    /\ nextId >= 1
    /\ Cardinality(ChunksBefore(1, Len(wire) + 1)) = 2
    /\ \E p \in Positions(1) :
          /\ wire[p].type = "file-cancel"
          /\ wire[p].hasId
          /\ Cardinality(ChunksBefore(1, p)) = 1
    /\ ~InSendLoop(1)
    /\ ~HasOnWire(1, "file-complete")

\* C39: the timer of the connection timeout is armed only while
\* connectionState is connecting, it fires only in that state, and no step
\* taken in another state sets the error connectionTimeout.
C39_TimeoutOnlyConnecting ==
    /\ [](\A e \in Ends : timer[e] => connectionState[e] = "connecting")
    /\ [][ \A e \in Ends :
              /\ ConnectionTimeout(e) => connectionState[e] = "connecting"
              /\ (connectionState[e] # "connecting" /\ error'[e] = "connectionTimeout")
                    => error[e] = "connectionTimeout" ]_vars

\* Both endpoints are connected, each after its timer was armed in
\* connecting and cleared, and their peers are open.
C39_Witness ==
    /\ \A e \in Ends : /\ connectionState[e] = "connected"
                         /\ ~timer[e]
                         /\ CanSend(e, peerRef[e])
    /\ error = [e \in Ends |-> "null"]

====
